---- MODULE Spec2Model ----
(***************************************************************************)
(* CommandBuilder (src/python/command_builder.py): an ordered registry of  *)
(* (matcher, argument types, handler) entries with first-match dispatch    *)
(* and a string-to-type coercion helper.                                   *)
(*                                                                         *)
(* Python values are modelled as follows.                                  *)
(*   str            a sequence of one-character strings                    *)
(*   re.Pattern     [kind |-> "re", pat |-> p], p a sequence whose         *)
(*                  elements are literal characters or GROUP, a greedy     *)
(*                  capture group over any characters                      *)
(*   str matcher    [kind |-> "str", pat |-> s]                            *)
(*   list | None    [none |-> TRUE, list |-> <<>>] for None,               *)
(*                  [none |-> FALSE, list |-> l] for the list l            *)
(*   converted value [t |-> type name, n |-> number, s |-> text]           *)
(*   a call's outcome carries exc: "none" when it returns, else the name   *)
(*                  of the exception that leaves it                        *)
(***************************************************************************)
EXTENDS Integers, Sequences, FiniteSets, TLC

VARIABLES commands, op, arg, ret

vars == <<commands, op, arg, ret>>

\* Largest number of entries the model lets the registry hold.
MaxCommands == 2

\* ------------------------------------------------------------------ values

GROUP == "(.*)"

Digits == {"3", "4"}

DigitValue(c) == IF c = "3" THEN 3 ELSE 4

None == [none |-> TRUE, list |-> <<>>]

List(l) == [none |-> FALSE, list |-> l]

NoFunc == "None"

Funcs == {"f1", "f2"}

Str(s) == [kind |-> "str", pat |-> s]

Re(p) == [kind |-> "re", pat |-> p]

\* The matchers the model registers: the driver's "exit", the same text
\* compiled, and one- and two-group patterns in the shape of the driver's
\* echo/add commands.
Matchers ==
  { Str(<<"e", "x", "i", "t">>),
    Re(<<"e", "x", "i", "t">>),
    Re(<<"a", "d", "d", " ", GROUP>>),
    Re(<<"a", "d", "d", " ", GROUP, " ", GROUP>>) }

\* The declared type lists the model registers: no arguments, a list whose
\* first type rejects non-numerals and whose second accepts anything, and a
\* list that accepts anything.
TypeLists == { None, List(<<"int", "str">>), List(<<"str">>) }

\* The command lines the model dispatches.
Inputs ==
  { <<"e", "x", "i", "t">>,
    <<"e", "x", "i", "t", " ", "3">>,
    <<"a", "d", "d", " ", "3">>,
    <<"a", "d", "d", " ", "x">>,
    <<"a", "d", "d", " ", "3", " ", "4">>,
    <<"s", "u", "b">> }

\* ------------------------------------------------------------------ re.match

\* regex.match(command) followed by match.groups(): the pattern is matched at
\* position 0 and need not consume the whole string; a group is greedy and
\* backtracks.  MatchFrom returns [ok, groups] for pattern position i and
\* string position j; Greedy tries the group ending before k, longest first.
RECURSIVE MatchFrom(_, _, _, _)
RECURSIVE Greedy(_, _, _, _, _)
MatchFrom(p, i, s, j) ==
  IF i > Len(p) THEN [ok |-> TRUE, groups |-> <<>>]
  ELSE IF p[i] = GROUP THEN Greedy(p, i, s, j, Len(s) + 1)
  ELSE IF j <= Len(s) /\ s[j] = p[i] THEN MatchFrom(p, i + 1, s, j + 1)
  ELSE [ok |-> FALSE, groups |-> <<>>]

Greedy(p, i, s, j, k) ==
  IF k < j THEN [ok |-> FALSE, groups |-> <<>>]
  ELSE LET rest == MatchFrom(p, i + 1, s, k)
       IN IF rest.ok
          THEN [ok |-> TRUE, groups |-> <<SubSeq(s, j, k - 1)>> \o rest.groups]
          ELSE Greedy(p, i, s, j, k - 1)

match(regex, command) == MatchFrom(regex.pat, 1, command, 1)

\* ------------------------------------------------------------------ coercion

RECURSIVE lstrip(_)
lstrip(s) == IF s # <<>> /\ Head(s) = " " THEN lstrip(Tail(s)) ELSE s

RECURSIVE rstrip(_)
rstrip(s) ==
  IF s # <<>> /\ s[Len(s)] = " " THEN rstrip(SubSeq(s, 1, Len(s) - 1)) ELSE s

strip(s) == rstrip(lstrip(s))

IsNumeral(s) == s # <<>> /\ \A k \in 1..Len(s) : s[k] \in Digits

RECURSIVE Decimal(_)
Decimal(s) ==
  IF s = <<>> THEN 0
  ELSE 10 * Decimal(SubSeq(s, 1, Len(s) - 1)) + DigitValue(s[Len(s)])

\* try_convert(item, target_type): [exc, val].  int() and float() accept
\* surrounding whitespace and, over the model's alphabet, digits only; bool()
\* is the truth value of the string; str() is the string.  Every exception is
\* re-raised as ValueError.
try_convert(item, target_type) ==
  IF target_type = "int" THEN
    IF IsNumeral(strip(item))
    THEN [exc |-> "none", val |-> [t |-> "int", n |-> Decimal(strip(item)), s |-> <<>>]]
    ELSE [exc |-> "ValueError", val |-> [t |-> "none", n |-> 0, s |-> <<>>]]
  ELSE IF target_type = "float" THEN
    IF IsNumeral(strip(item))
    THEN [exc |-> "none", val |-> [t |-> "float", n |-> Decimal(strip(item)), s |-> <<>>]]
    ELSE [exc |-> "ValueError", val |-> [t |-> "none", n |-> 0, s |-> <<>>]]
  ELSE IF target_type = "bool" THEN
    [exc |-> "none", val |-> [t |-> "bool", n |-> IF item = <<>> THEN 0 ELSE 1, s |-> <<>>]]
  ELSE
    [exc |-> "none", val |-> [t |-> "str", n |-> 0, s |-> item]]

\* The inner loop of type_check for one item, from declared type k on:
\* [exc, vals], vals the values appended for this item.  A conversion that
\* raises leaves the loop (and type_check) at once; a converted value is never
\* None for the four constructors, so the first type that returns ends the loop.
RECURSIVE convert_item(_, _, _)
convert_item(item, target_types, k) ==
  IF k > Len(target_types) THEN [exc |-> "none", vals |-> <<>>]
  ELSE LET converted_item == try_convert(item, target_types[k])
       IN IF converted_item.exc # "none"
          THEN [exc |-> converted_item.exc, vals |-> <<>>]
          ELSE [exc |-> "none", vals |-> <<converted_item.val>>]

\* The outer loop of type_check from item i on.
RECURSIVE convert_all(_, _, _)
convert_all(input_list, target_types, i) ==
  IF i > Len(input_list) THEN [exc |-> "none", vals |-> <<>>]
  ELSE LET one == convert_item(input_list[i], target_types, 1)
       IN IF one.exc # "none" THEN one
          ELSE LET rest == convert_all(input_list, target_types, i + 1)
               IN IF rest.exc # "none" THEN rest
                  ELSE [exc |-> "none", vals |-> one.vals \o rest.vals]

\* type_check(input_list, target_types): [exc, result].
type_check(input_list, target_types) ==
  IF target_types.none
  THEN IF Len(input_list) = 0
       THEN [exc |-> "none", result |-> <<>>]
       ELSE [exc |-> "ValueError", result |-> <<>>]
  ELSE LET r == convert_all(input_list, target_types.list, 1)
       IN [exc |-> r.exc, result |-> r.vals]

\* ------------------------------------------------------------------ lookup

Entry(regex, types, func) == [regex |-> regex, types |-> types, func |-> func]

NotFound == [exc |-> "none", func |-> NoFunc, args |-> None]

\* get's loop without the try/except: the conversion error leaves the loop.
RECURSIVE get_from_raising(_, _, _)
get_from_raising(cmds, command, i) ==
  IF i > Len(cmds) THEN [exc |-> "none", func |-> "None", args |-> None]
  ELSE LET e == cmds[i]
       IN IF e.regex.kind = "re"
          THEN LET m == match(e.regex, command)
               IN IF m.ok
                  THEN LET a == type_check(m.groups, e.types)
                       IN IF a.exc = "none"
                          THEN [exc |-> "none", func |-> e.func, args |-> List(a.result)]
                          ELSE [exc |-> a.exc, func |-> "None", args |-> None]
                  ELSE get_from_raising(cmds, command, i + 1)
          ELSE IF e.regex.pat = command
          THEN [exc |-> "none", func |-> e.func, args |-> None]
          ELSE get_from_raising(cmds, command, i + 1)

\* The loop of get from entry i on: [exc, func, args].  A ValueError raised in
\* the body is swallowed and the loop goes on with the next entry.
RECURSIVE get_from(_, _, _)
get_from(cmds, command, i) ==
  IF i > Len(cmds) THEN NotFound
  ELSE LET e == cmds[i]
       IN IF e.regex.kind = "re"
          THEN LET m == match(e.regex, command)
               IN IF m.ok
                  THEN LET a == type_check(m.groups, e.types)
                       IN IF a.exc = "none"
                          THEN [exc |-> "none", func |-> e.func, args |-> List(a.result)]
                          ELSE IF a.exc = "ValueError"
                          THEN get_from(cmds, command, i + 1)
                          ELSE [exc |-> a.exc, func |-> NoFunc, args |-> None]
                  ELSE get_from(cmds, command, i + 1)
          ELSE IF e.regex.pat = command
          THEN [exc |-> "none", func |-> e.func, args |-> None]
          ELSE get_from(cmds, command, i + 1)

Reversed(cmds) == [k \in 1..Len(cmds) |-> cmds[Len(cmds) + 1 - k]]

\* get iterating the entries from the newest to the oldest.
get_reversed(cmds, command) == get_from(Reversed(cmds), command, 1)

get(cmds, command) == get_from(cmds, command, 1)

\* The value a handler returns: handlers are uninterpreted, so the value is
\* the application itself.
Apply(func, params) == [func |-> func, params |-> params]

NoValue == [func |-> NoFunc, params |-> <<>>]

\* handle(command): [exc, found, result].  func(*params) with params None
\* raises TypeError before the handler runs.
handle(cmds, command) ==
  LET g == get(cmds, command)
  IN IF g.exc # "none" THEN [exc |-> g.exc, found |-> FALSE, result |-> NoValue]
     ELSE IF g.func # NoFunc
     THEN IF g.args.none
          THEN [exc |-> "TypeError", found |-> FALSE, result |-> NoValue]
          ELSE [exc |-> "none", found |-> TRUE, result |-> Apply(g.func, g.args.list)]
     ELSE [exc |-> "none", found |-> FALSE, result |-> NoValue]

\* ------------------------------------------------------------------ registry

Matching(cmds, regex) == { k \in 1..Len(cmds) : cmds[k].regex = regex }

\* add_command without the test for an equal matcher.
add_command_unchecked(cmds, regex, types, func) ==
  [commands |-> Append(cmds, Entry(regex, types, func)), result |-> TRUE]

\* add_command inserting the new entry first.
add_command_front(cmds, regex, types, func) ==
  IF Cardinality(Matching(cmds, regex)) = 0
  THEN [commands |-> <<Entry(regex, types, func)>> \o cmds, result |-> TRUE]
  ELSE [commands |-> cmds, result |-> FALSE]

\* add_command: [commands, result].
add_command(cmds, regex, types, func) ==
  IF Cardinality(Matching(cmds, regex)) = 0
  THEN [commands |-> Append(cmds, Entry(regex, types, func)), result |-> TRUE]
  ELSE [commands |-> cmds, result |-> FALSE]

RECURSIVE Without(_, _)
Without(cmds, regex) ==
  IF cmds = <<>> THEN <<>>
  ELSE IF Head(cmds).regex # regex
  THEN <<Head(cmds)>> \o Without(Tail(cmds), regex)
  ELSE Without(Tail(cmds), regex)

\* remove_command with the filter's comparison turned round.
remove_command_keeps_equal(cmds, regex) ==
  LET keep(c) == c.regex = regex
      filtered == SelectSeq(cmds, keep)
  IN [commands |-> filtered, result |-> (filtered = cmds)]

\* remove_command: [commands, result]; result is the comparison of the
\* filtered list with the list before.
remove_command(cmds, regex) ==
  LET filtered == Without(cmds, regex)
  IN [commands |-> filtered, result |-> (filtered = cmds)]

\* __repr__: the text as its parts, the count and the word after it.
repr(cmds) ==
  LET command_count == Len(cmds)
  IN <<"<CommandBuilder commands:", command_count,
       IF command_count = 1 THEN "commands" ELSE "command", ">">>

\* __call__(command) is handle(command).
call(cmds, command) == handle(cmds, command)

\* ------------------------------------------------------------------ actions

Init ==
  /\ commands = <<>>
  /\ op = "init"
  /\ arg = <<>>
  /\ ret = <<>>

AddCommand ==
  \E regex \in Matchers, types \in TypeLists, func \in Funcs :
    LET r == add_command(commands, regex, types, func)
    IN /\ Len(r.commands) <= MaxCommands
       /\ commands' = r.commands
       /\ op' = "add_command"
       /\ arg' = <<regex, types, func>>
       /\ ret' = r.result

RemoveCommand ==
  \E regex \in Matchers :
    LET r == remove_command(commands, regex)
    IN /\ commands' = r.commands
       /\ op' = "remove_command"
       /\ arg' = <<regex>>
       /\ ret' = r.result

Handle ==
  \E command \in Inputs :
    /\ op' = "handle"
    /\ arg' = <<command>>
    /\ ret' = handle(commands, command)
    /\ UNCHANGED commands

Call ==
  \E command \in Inputs :
    /\ op' = "call"
    /\ arg' = <<command>>
    /\ ret' = call(commands, command)
    /\ UNCHANGED commands

Get ==
  \E command \in Inputs :
    /\ op' = "get"
    /\ arg' = <<command>>
    /\ ret' = get(commands, command)
    /\ UNCHANGED commands

Repr ==
  /\ op' = "repr"
  /\ arg' = <<>>
  /\ ret' = repr(commands)
  /\ UNCHANGED commands

Next == AddCommand \/ RemoveCommand \/ Handle \/ Call \/ Get \/ Repr

Spec == Init /\ [][Next]_vars

\* ------------------------------------------------------------------ type_check alone

\* Longest list of captured strings handed to type_check directly.
MaxGroups == 2

\* Strings a group can capture from a command line over the model's alphabet.
Captured ==
  { <<>>, <<"3">>, <<"x">>, <<"3", "4">>, <<" ", "3">>, <<"3", " ", "4">> }

InputLists == UNION { [1..n -> Captured] : n \in 0..MaxGroups }

TargetTypeLists ==
  { None, List(<<>>), List(<<"int">>), List(<<"int", "int">>),
    List(<<"int", "str">>), List(<<"str", "int">>), List(<<"float">>),
    List(<<"float", "bool">>), List(<<"bool">>) }

\* The static method called on its own.
TypeCheck ==
  \E input_list \in InputLists, target_types \in TargetTypeLists :
    /\ op' = "type_check"
    /\ arg' = <<input_list, target_types>>
    /\ ret' = type_check(input_list, target_types)
    /\ UNCHANGED commands

NextTypeCheck == TypeCheck

TypeCheckSpec == Init /\ [][NextTypeCheck]_vars

\* ------------------------------------------------------------------ properties

Dispatching == op \in {"handle", "call"}

\* Entry e accepts the command line: its matcher matches and, for a compiled
\* pattern, coercion of the captured groups returns.
Accepts(e, command) ==
  IF e.regex.kind = "re"
  THEN /\ match(e.regex, command).ok
       /\ type_check(match(e.regex, command).groups, e.types).exc = "none"
  ELSE e.regex.pat = command

\* Entry e's pattern matches the command line but coercion of the groups fails.
FailsCoercion(e, command) ==
  /\ e.regex.kind = "re"
  /\ match(e.regex, command).ok
  /\ type_check(match(e.regex, command).groups, e.types).exc # "none"

\* Entry e's matcher matches the command line, whatever coercion does.
MatcherMatches(e, command) ==
  IF e.regex.kind = "re" THEN match(e.regex, command).ok ELSE e.regex.pat = command

Acceptors(command) == { k \in 1..Len(commands) : Accepts(commands[k], command) }

Earliest(S) == CHOOSE k \in S : \A j \in S : k <= j

\* The arguments lookup hands out for an accepting entry.
ArgsOf(e, command) ==
  IF e.regex.kind = "re"
  THEN List(type_check(match(e.regex, command).groups, e.types).result)
  ELSE None

\* C1: an exact-string entry with no types, given an input equal to its
\* matcher that no earlier entry accepts, is dispatched by calling its handler
\* with no arguments and returning (true, the handler's value) without raising;
\* an input that differs from the matcher is not matched by the entry.
ExactStringDispatch ==
  Dispatching =>
    \A k \in 1..Len(commands) :
      LET e == commands[k]
      IN (e.regex.kind = "str" /\ e.types.none) =>
           /\ (e.regex.pat # arg[1]) => ~Accepts(e, arg[1])
           /\ (e.regex.pat = arg[1] /\ \A j \in 1..(k - 1) : ~Accepts(commands[j], arg[1])) =>
                /\ ret.exc = "none"
                /\ ret.found
                /\ ret.result = Apply(e.func, <<>>)

\* C2: remove returns true exactly when the sequence became shorter.
RemoveReturnsWhetherRemoved ==
  [][op' = "remove_command" => (ret' <=> Len(commands') < Len(commands))]_vars

\* C3: no two entries of the registry have equal matchers.
UniqueMatchers ==
  \A i, j \in 1..Len(commands) : i # j => commands[i].regex # commands[j].regex

UniqueMatchersWitness ==
  /\ op = "add_command"
  /\ ret = FALSE
  /\ Len(commands) = 2

\* C4: add with a matcher already registered returns false and leaves the
\* sequence as it was; otherwise it returns true and the sequence is the old
\* one with the new entry appended last.
AddContract ==
  [][op' = "add_command" =>
       IF \E k \in 1..Len(commands) : commands[k].regex = arg'[1]
       THEN ret' = FALSE /\ commands' = commands
       ELSE /\ ret' = TRUE
            /\ commands' = Append(commands, Entry(arg'[1], arg'[2], arg'[3]))]_vars

AddContractWitness ==
  /\ op = "add_command"
  /\ ret = TRUE
  /\ Len(commands) = 2
  /\ commands[2] = Entry(arg[1], arg[2], arg[3])

\* C5: remove deletes the entries with the given matcher and nothing else: the
\* others keep content and order; an unregistered matcher leaves the sequence
\* unchanged, a registered one lowers the count by exactly one.
RemoveFrame ==
  [][op' = "remove_command" =>
       LET hit == { k \in 1..Len(commands) : commands[k].regex = arg'[1] }
           keep(e) == e.regex # arg'[1]
       IN /\ commands' = SelectSeq(commands, keep)
          /\ (hit = {}) => commands' = commands
          /\ (hit # {}) => Len(commands') = Len(commands) - 1]_vars

\* A removal left one entry behind: the comparison with the list before is
\* false because the list changed.
RemoveFrameWitness ==
  /\ op = "remove_command"
  /\ ret = FALSE
  /\ Len(commands) = 1

\* C6: lookup and dispatch resolve the handler (and arguments) of the earliest
\* registered entry that accepts the input; a later accepting entry is never
\* chosen, and the input is never reported as not found.
FirstMatchWins ==
  (op \in {"get", "handle", "call"} /\ Acceptors(arg[1]) # {}) =>
    LET e == commands[Earliest(Acceptors(arg[1]))]
    IN IF op = "get"
       THEN /\ ret.exc = "none"
            /\ ret.func = e.func
            /\ ret.args = ArgsOf(e, arg[1])
       ELSE ret.exc = "none" =>
              /\ ret.found
              /\ ret.result = Apply(e.func, ArgsOf(e, arg[1]).list)

\* Two entries with different handlers accept the input and lookup answered.
FirstMatchWinsWitness ==
  /\ op = "get"
  /\ Len(commands) = 2
  /\ Acceptors(arg[1]) = {1, 2}
  /\ commands[1].func # commands[2].func
  /\ ret.func = commands[1].func

ReprPluralization ==
  op = "repr" =>
    /\ ret[2] = Len(commands)
    /\ (ret[3] = "command") <=> (Len(commands) = 1)
    /\ (ret[3] = "commands") <=> (Len(commands) # 1)

\* Some declared type converts the string.
Convertible(item, target_types) ==
  \E k \in 1..Len(target_types) : try_convert(item, target_types[k]).exc = "none"

\* The value of the first declared type, in list order, that converts the string.
FirstConversion(item, target_types) ==
  LET k == Earliest({ i \in 1..Len(target_types) :
                        try_convert(item, target_types[i]).exc = "none" })
  IN try_convert(item, target_types[k]).val

\* C9: when the first entry whose matcher matches is a compiled pattern and
\* every captured string is convertible to a declared type, dispatch calls
\* that entry's handler with one converted value per group, in capture order,
\* and returns (true, the handler's value).
RegexDispatchConverts ==
  Dispatching =>
    \A k \in 1..Len(commands) :
      LET e == commands[k]
          m == match(e.regex, arg[1])
      IN (/\ e.regex.kind = "re"
          /\ m.ok
          /\ ~e.types.none
          /\ \A g \in 1..Len(m.groups) : Convertible(m.groups[g], e.types.list)
          /\ \A j \in 1..(k - 1) : ~MatcherMatches(commands[j], arg[1])) =>
           /\ ret.exc = "none"
           /\ ret.found
           /\ ret.result.func = e.func
           /\ Len(ret.result.params) = Len(m.groups)
           /\ \A g \in 1..Len(m.groups) :
                \E t \in 1..Len(e.types.list) :
                  /\ try_convert(m.groups[g], e.types.list[t]).exc = "none"
                  /\ ret.result.params[g] = try_convert(m.groups[g], e.types.list[t]).val

\* C10: with a declared type list, each captured string is tried against the
\* declared types in list order until one succeeds: when every string has a
\* type that converts it, coercion succeeds and yields, for each string, the
\* value of the first type that converts it.
CoercionFallsThrough ==
  (op = "type_check" /\ ~arg[2].none) =>
    LET input_list == arg[1]
        target_types == arg[2].list
    IN (\A i \in 1..Len(input_list) : Convertible(input_list[i], target_types)) =>
         /\ ret.exc = "none"
         /\ Len(ret.result) = Len(input_list)
         /\ \A i \in 1..Len(input_list) :
              ret.result[i] = FirstConversion(input_list[i], target_types)

====
